---- MODULE Spec2Model ----
(***************************************************************************)
(* Model of the arbitrage bot: the opportunity scan and the execution     *)
(* state machine of ArbitrageEngine (src/src/arbitrage.rs), the adapters' *)
(* execute_swap (src/src/dex.rs), the polling loop (src/src/main.rs) and  *)
(* the /api/opportunities handler (src/src/web/handlers.rs).              *)
(*                                                                         *)
(* rust_decimal::Decimal values are integers in hundredths (DecScale):    *)
(* 10500 is 105.00, 25 is 0.25.  Quotients are kept to four more digits    *)
(* (RatioScale) before they are multiplied, as Decimal keeps 28 digits.    *)
(***************************************************************************)
EXTENDS Integers, Sequences, FiniteSets, TLC

VARIABLES
    config,                 \* Config (src/src/config.rs), fixed after start-up
    consecutive_failures,   \* ArbitrageEngine.consecutive_failures
    engine_lock,            \* owner of the tokio Mutex around the engine, or Free (no owner)
    pc,                     \* position of each task (polling loop, request handlers)
    opportunities,          \* run_arbitrage_loop: opportunities of the scan still to execute
    exec,                   \* locals of the execute_arbitrage call in flight
    swap_log,               \* execute_swap invocations of the execution in flight or just returned
    monitor_log,            \* Monitor::log_arbitrage calls of the execution in flight or just returned
    last_return,            \* value returned by the last execute_arbitrage call
    failures_before,        \* consecutive_failures when the last execute_arbitrage started
    fail_run,               \* execute_arbitrage calls that ended in a failed leg since the last success
    scan_result,            \* value returned by a find_opportunities call on its own
    http_status,            \* status of the last /api/opportunities response, 0 before any
    bot_status,             \* WebState.bot_status (src/src/web/state.rs)
    web_env,                \* the environment variables WEB_USERNAME and WEB_PASSWORD
    auth                    \* outcome of the last credential check, by both checks

vars == <<config, consecutive_failures, engine_lock, pc, opportunities, exec,
          swap_log, monitor_log, last_return, failures_before, fail_run,
          scan_result, http_status,
                   bot_status, web_env, auth>>

(***************************************************************************)
(* Bounds                                                                  *)
(***************************************************************************)
MaxCeiling == 2      \* largest configured max_consecutive_failures
MaxFailures == 3     \* consecutive_failures is not driven beyond this value
NumHandlers == 1     \* concurrent /api/opportunities requests

(***************************************************************************)
(* Decimal arithmetic                                                      *)
(***************************************************************************)
DecScale == 100
RatioScale == 10000

Min(a, b) == IF a <= b THEN a ELSE b
Max(a, b) == IF a >= b THEN a ELSE b

\* Decimal::from(n)
DecFromInt(n) == n * DecScale

\* a / b for two Decimals: the ratio, kept at RatioScale
DecDiv(a, b) == (a * RatioScale) \div b

\* ratio * Decimal, back at DecScale
RatioMul(r, d) == (r * d) \div RatioScale

\* Decimal * Decimal
DecMul(a, b) == (a * b) \div DecScale

\* An f64 of the configuration: a number in hundredths, or NaN
F64(v) == [nan |-> FALSE, v |-> v]
NaN == [nan |-> TRUE, v |-> 0]

\* Decimal::from_str(&format!("{:.10}", x)).unwrap_or(fallback): "NaN" does not
\* parse as a Decimal, a number keeps the digits it has
DecimalFromF64(x, fallback) == IF x.nan THEN fallback ELSE x.v

(***************************************************************************)
(* Strings: a pair string is a sequence of characters                      *)
(***************************************************************************)
RECURSIVE SplitFrom(_, _, _, _)
\* str::split('/'): parts of s from position i on, cur is the part being read
SplitFrom(s, i, cur, parts) ==
    IF i > Len(s) THEN Append(parts, cur)
    ELSE IF s[i] = "/" THEN SplitFrom(s, i + 1, <<>>, Append(parts, cur))
    ELSE SplitFrom(s, i + 1, Append(cur, s[i]), parts)

Split(s) == SplitFrom(s, 1, <<>>, <<>>)

(***************************************************************************)
(* DexManager                                                              *)
(***************************************************************************)
KnownDexes == {"raydium", "orca", "serum"}

\* DexManager::new: one adapter per recognised name, in configuration order
DexManagerNew(enabled_dexes) == SelectSeq(enabled_dexes, LAMBDA n : n \in KnownDexes)

\* DexManager::new returns Ok(Self) for every list: the adapters' constructors
\* only build an RpcClient and nothing checks the number of adapters
DexManagerNewOk(enabled_dexes) == TRUE

\* DexManager::get_dex: index of the first adapter with that name, 0 if none
GetDex(dexes, name) ==
    IF \E i \in 1..Len(dexes) : dexes[i] = name
    THEN CHOOSE i \in 1..Len(dexes) : dexes[i] = name /\ \A k \in 1..(i - 1) : dexes[k] # name
    ELSE 0

(***************************************************************************)
(* ArbitrageEngine: scan                                                   *)
(***************************************************************************)
\* a fee table that knows the default only
GetDexFeeDefault(dex_name) == 25

\* get_dex_fee, in percent
GetDexFee(dex_name) ==
    CASE dex_name = "raydium" -> 25
      [] dex_name = "orca" -> 30
      [] dex_name = "serum" -> 4
      [] OTHER -> 25

\* get_dex_liquidity: price_ok is the outcome of the get_price call it makes
GetDexLiquidity(dexes, dex_name, price_ok) ==
    IF GetDex(dexes, dex_name) = 0 THEN [ok |-> FALSE, value |-> 0]
    ELSE IF price_ok THEN [ok |-> TRUE, value |-> DecFromInt(1000)]
    ELSE [ok |-> TRUE, value |-> 0]

\* a sizing that takes the tenth of the liquidity whatever the maximum is
OptimalAmountUncapped(max_amount, available_liquidity) == DecMul(available_liquidity, 10)

\* lines 284-287: the least of max_amount, 0.1 * available_liquidity and
\* available_liquidity
OptimalAmount(max_amount, available_liquidity) ==
    LET optimal_from_liquidity == DecMul(available_liquidity, 10)
    IN  Min(Min(max_amount, optimal_from_liquidity), available_liquidity)

\* an undetermined liquidity taken for none
UndeterminedLiquidityZero(max_amount) == 0

\* lines 275, 277: unwrap_or(max_amount * Decimal::from(10))
UndeterminedLiquidity(max_amount) == max_amount * 10

\* calculate_optimal_trade_amount: buy_ok, sell_ok are the outcomes of the two
\* get_price calls made through get_dex_liquidity.  liquidity is the lesser of
\* the two venues' liquidity the amount was sized with.
CalculateOptimalTradeAmount(cfg, dexes, buy_dex, sell_dex, buy_ok, sell_ok) ==
    LET max_amount == DecimalFromF64(cfg.max_trade_amount_sol, 0)
        bl == GetDexLiquidity(dexes, buy_dex, buy_ok)
        sl == GetDexLiquidity(dexes, sell_dex, sell_ok)
        buy_liquidity == IF bl.ok THEN bl.value ELSE UndeterminedLiquidity(max_amount)
        sell_liquidity == IF sl.ok THEN sl.value ELSE UndeterminedLiquidity(max_amount)
        available_liquidity == Min(buy_liquidity, sell_liquidity)
        optimal_amount == OptimalAmount(max_amount, available_liquidity)
    IN  IF optimal_amount <= 0 THEN [ok |-> FALSE, value |-> 0, liquidity |-> available_liquidity]
        ELSE [ok |-> TRUE, value |-> optimal_amount, liquidity |-> available_liquidity]

\* a profit taken relative to the selling price
ProfitPercentOfSell(buy_price, sell_price) ==
    RatioMul(DecDiv(sell_price - buy_price, sell_price), DecFromInt(100))

\* line 103: ((sell_price - buy_price) / buy_price) * Decimal::from(100)
ProfitPercent(buy_price, sell_price) ==
    RatioMul(DecDiv(sell_price - buy_price, buy_price), DecFromInt(100))

\* the comparison of line 130 with equality dropped
MeetsMinProfitStrict(profit_after_fees, min_profit) == profit_after_fees > min_profit

\* the comparison of line 130
MeetsMinProfit(profit_after_fees, min_profit) == profit_after_fees >= min_profit

\* a comparator under which an element overtakes its equals
SortsBeforeUnstable(a, b) == a.profit_percent_after_fees > b.profit_percent_after_fees

\* the comparator of the sort of line 150: TRUE when a stays in front of b
SortsBefore(a, b) == a.profit_percent_after_fees >= b.profit_percent_after_fees

RECURSIVE InsertSorted(_, _, _)
\* stable insertion of x into the sorted s, scanning from position i
InsertSorted(s, x, i) ==
    IF i > Len(s) THEN Append(s, x)
    ELSE IF SortsBefore(s[i], x) THEN InsertSorted(s, x, i + 1)
    ELSE SubSeq(s, 1, i - 1) \o <<x>> \o SubSeq(s, i, Len(s))

RECURSIVE SortFrom(_, _, _)
SortFrom(s, i, acc) ==
    IF i > Len(s) THEN acc ELSE SortFrom(s, i + 1, InsertSorted(acc, s[i], 1))

\* opportunities.sort_by(|a, b| b.profit_percent_after_fees.cmp(&a.profit_percent_after_fees))
SortByProfit(s) == SortFrom(s, 1, <<>>)

RECURSIVE PricesOf(_, _, _, _)
\* lines 75-85: the (name, price) of every adapter whose get_price answered
PricesOf(dexes, quotes, d, acc) ==
    IF d > Len(dexes) THEN acc
    ELSE IF quotes[d].ok
         THEN PricesOf(dexes, quotes, d + 1, Append(acc, [dex |-> dexes[d], price |-> quotes[d].price]))
         ELSE PricesOf(dexes, quotes, d + 1, acc)

\* a test that lets equal prices through
IsCandidateOrEqual(buy_price, sell_price) == sell_price >= buy_price

\* line 102: if sell_price > buy_price
IsCandidate(buy_price, sell_price) == sell_price > buy_price

\* lines 98-144: one (i, j) of the double loop.  st carries the vector being
\* built, the number of liquidity re-queries made so far and the error flag a
\* propagated `?` sets.
ScanCandidate(cfg, dexes, p, parts, prices, i, j, fail_at, st) ==
    LET buy == prices[i]
        sell == prices[j]
    IN  IF i = j \/ ~IsCandidate(buy.price, sell.price) THEN st
        ELSE
          LET profit_percent == ProfitPercent(buy.price, sell.price)
              sizing == CalculateOptimalTradeAmount(cfg, dexes, buy.dex, sell.dex,
                                                    st.calls + 1 # fail_at, st.calls + 2 # fail_at)
              total_fee_percent == GetDexFee(buy.dex) + GetDexFee(sell.dex)
              profit_after_fees == profit_percent - total_fee_percent
              min_profit == DecimalFromF64(cfg.min_profit_percent, 0)
              opp == [from_dex |-> buy.dex, to_dex |-> sell.dex,
                      base_token |-> parts[1], quote_token |-> parts[2],
                      buy_price |-> buy.price, sell_price |-> sell.price,
                      profit_percent |-> profit_percent,
                      profit_percent_after_fees |-> profit_after_fees,
                      trade_amount |-> sizing.value,
                      \* trade_amount * (total_fee_percent / 100), in millionths
                      estimated_fees |-> sizing.value * total_fee_percent]
          IN  IF ~sizing.ok
              THEN [st EXCEPT !.calls = st.calls + 2, !.err = TRUE, !.err_pair = p]
              ELSE [st EXCEPT !.calls = st.calls + 2,
                              !.sized = Append(st.sized, [p |-> p, i |-> i, j |-> j, opp |-> opp,
                                                          liquidity |-> sizing.liquidity]),
                              !.opps = IF MeetsMinProfit(profit_after_fees, min_profit)
                                       THEN Append(st.opps, opp) ELSE st.opps,
                              !.trace = IF MeetsMinProfit(profit_after_fees, min_profit)
                                        THEN Append(st.trace, [p |-> p, i |-> i, j |-> j, opp |-> opp])
                                        ELSE st.trace]

RECURSIVE ScanIJ(_, _, _, _, _, _, _, _)
\* lines 92-146: for i in 0..n, for j in 0..n, k enumerates (i, j) row by row
ScanIJ(cfg, dexes, p, parts, prices, k, fail_at, st) ==
    LET n == Len(prices)
    IN  IF st.err \/ k > n * n THEN st
        ELSE ScanIJ(cfg, dexes, p, parts, prices, k + 1, fail_at,
                    ScanCandidate(cfg, dexes, p, parts, prices,
                                  ((k - 1) \div n) + 1, ((k - 1) % n) + 1, fail_at, st))

\* a pair without two prices that ends the scan with an error
AbortPair(st, p) == [st EXCEPT !.err = TRUE, !.err_pair = p]

\* lines 87-89: `continue`, the pair adds nothing and the scan state is kept
ContinuePair(st, p) == st

RECURSIVE ScanPairs(_, _, _, _, _, _)
\* lines 64-147: for pair in trading_pairs.  queried records each pair whose
\* price was asked of the adapters, with its tokens and the adapters' answers.
ScanPairs(cfg, dexes, oracle, p, fail_at, st) ==
    IF st.err \/ p > Len(cfg.trading_pairs) THEN st
    ELSE
      LET parts == Split(cfg.trading_pairs[p])
      IN  IF Len(parts) # 2 THEN ScanPairs(cfg, dexes, oracle, p + 1, fail_at, st)
          ELSE
            LET prices == PricesOf(dexes, oracle[p], 1, <<>>)
                queried == [st EXCEPT !.queried = Append(st.queried,
                                [p |-> p, base_token |-> parts[1], quote_token |-> parts[2],
                                 quotes |-> oracle[p]])]
            IN  IF Len(prices) < 2
                THEN ScanPairs(cfg, dexes, oracle, p + 1, fail_at, ContinuePair(queried, p))
                ELSE ScanPairs(cfg, dexes, oracle, p + 1, fail_at,
                               ScanIJ(cfg, dexes, p, parts, prices, 1, fail_at, queried))

\* a scan that starts with one adapter
EnoughDexesOne(dexes) == Len(dexes) >= 1

\* lines 59-61: the scan needs two adapters
EnoughDexes(dexes) == Len(dexes) >= 2

\* find_opportunities.  oracle[p][d] is the answer of adapter d's get_price for
\* pair p in the price pass; fail_at is the number of the first liquidity
\* re-query whose get_price fails (0: none fails).  A sizing error ends the scan
\* at once, so no later re-query is made and this covers every combination of
\* re-query outcomes.
\* Result: ok/opps are the Result<Vec<_>>; sized, trace, queried record what the
\* scan did (candidates sized, candidates pushed with their loop indices, pairs
\* whose prices were queried); get_price_calls counts the get_price calls of
\* the price pass and of the liquidity re-queries; err_pair is the pair at
\* which the error was raised, 0 if none.
FindOpportunities(cfg, oracle, fail_at) ==
    LET dexes == DexManagerNew(cfg.enabled_dexes)
        st0 == [opps |-> <<>>, trace |-> <<>>, sized |-> <<>>, queried |-> <<>>,
                calls |-> 0, err |-> FALSE, err_pair |-> 0]
    IN  IF ~EnoughDexes(dexes)
        THEN [ok |-> TRUE, opps |-> <<>>, trace |-> <<>>, sized |-> <<>>, queried |-> <<>>,
              get_price_calls |-> 0, err_pair |-> 0, called |-> TRUE]
        ELSE
          LET st == ScanPairs(cfg, dexes, oracle, 1, fail_at, st0)
              get_price_calls == Len(st.queried) * Len(dexes) + st.calls
          IN  IF st.err
              THEN [ok |-> FALSE, opps |-> <<>>, trace |-> st.trace, sized |-> st.sized,
                    queried |-> st.queried, get_price_calls |-> get_price_calls,
                    err_pair |-> st.err_pair, called |-> TRUE]
              ELSE [ok |-> TRUE, opps |-> SortByProfit(st.opps), trace |-> st.trace,
                    sized |-> st.sized, queried |-> st.queried,
                    get_price_calls |-> get_price_calls, err_pair |-> 0, called |-> TRUE]

(***************************************************************************)
(* Adapters: execute_swap                                                  *)
(***************************************************************************)
MaxRetries == 3

\* a backoff that does not grow
BackoffDelayFixed(attempt) == 100

\* dex.rs 323: Duration::from_millis(100 * (attempt + 1)), in milliseconds
BackoffDelay(attempt) == 100 * (attempt + 1)

\* dex.rs 322-326: the delays of the first n backoff sleeps, the k-th after the
\* failed send of attempt k - 1
Delays(n) == [k \in 1..n |-> BackoffDelay(k - 1)]

RECURSIVE SendTransactionWithRetry(_, _, _, _)
\* send_transaction_with_retry: attempt counts from 0; send_ok_at is the number
\* of the first send_transaction the RPC node accepts (0: none); deadline is the
\* number of the backoff sleep during which the caller's timeout expires (0:
\* never).  Result: sends made, sleeps started with their delays, and how the
\* call ended.
SendTransactionWithRetry(attempt, max_retries, send_ok_at, deadline) ==
    IF attempt >= max_retries
    THEN [end |-> "error", sends |-> attempt, sleeps |-> IF attempt = 0 THEN 0 ELSE attempt - 1,
          delays |-> Delays(IF attempt = 0 THEN 0 ELSE attempt - 1)]
    ELSE IF attempt + 1 = send_ok_at
    THEN [end |-> "ok", sends |-> attempt + 1, sleeps |-> attempt, delays |-> Delays(attempt)]
    ELSE IF attempt < max_retries - 1
    THEN IF deadline = attempt + 1
         THEN [end |-> "timeout", sends |-> attempt + 1, sleeps |-> attempt + 1,
               delays |-> Delays(attempt + 1)]
         ELSE SendTransactionWithRetry(attempt + 1, max_retries, send_ok_at, deadline)
    ELSE SendTransactionWithRetry(attempt + 1, max_retries, send_ok_at, deadline)

\* The part of execute_swap after the dry-run return, the same in the three
\* adapters: pool data (3 RPC reads), amount conversion, instruction, blockhash
\* (1 RPC read), send with retry.  env.fail_stage names the step that fails.
SubmitSwap(env) ==
    CASE env.fail_stage = "pool" ->
           [ok |-> FALSE, err |-> "error", sig |-> <<>>, rpc_calls |-> 1, sends |-> 0,
            delays |-> <<>>]
      [] env.fail_stage = "convert" ->
           [ok |-> FALSE, err |-> "error", sig |-> <<>>, rpc_calls |-> 3, sends |-> 0,
            delays |-> <<>>]
      [] env.fail_stage = "blockhash" ->
           [ok |-> FALSE, err |-> "error", sig |-> <<>>, rpc_calls |-> 4, sends |-> 0,
            delays |-> <<>>]
      [] OTHER ->
           LET r == SendTransactionWithRetry(0, MaxRetries, env.send_ok_at, env.deadline)
           IN  [ok |-> r.end = "ok", err |-> IF r.end = "ok" THEN "none" ELSE r.end,
                sig |-> IF r.end = "ok" THEN <<"tx">> ELSE <<>>,
                rpc_calls |-> 4 + r.sends, sends |-> r.sends, delays |-> r.delays]

\* "simulated_signature_<dex>", as its words
SimulatedSignature(dex_name) == <<"simulated", "signature", dex_name>>

\* the dry-run branch of execute_swap
DryRunResult(dex_name) ==
    [ok |-> TRUE, err |-> "none", sig |-> SimulatedSignature(dex_name), rpc_calls |-> 0, sends |-> 0,
     delays |-> <<>>]

\* an adapter whose execute_swap has no dry-run branch
ExecuteSwapNoDryRun(simulation_mode, env) == SubmitSwap(env)

RaydiumExecuteSwap(simulation_mode, env) ==
    IF simulation_mode THEN DryRunResult("raydium") ELSE SubmitSwap(env)

OrcaExecuteSwap(simulation_mode, env) ==
    IF simulation_mode THEN DryRunResult("orca") ELSE SubmitSwap(env)

SerumExecuteSwap(simulation_mode, env) ==
    IF simulation_mode THEN DryRunResult("serum") ELSE SubmitSwap(env)

\* dyn DexInterface dispatch on the adapter registered under index d
ExecuteSwap(dexes, d, simulation_mode, env) ==
    CASE dexes[d] = "raydium" -> RaydiumExecuteSwap(simulation_mode, env)
      [] dexes[d] = "orca" -> OrcaExecuteSwap(simulation_mode, env)
      [] OTHER -> SerumExecuteSwap(simulation_mode, env)

\* What the RPC node can do to one submitted swap.  The RpcClient is the
\* blocking one: blocked[k] is the time, in tenths of a second, the RPC calls up
\* to and including send k keep the thread (k = 1 includes the pool reads and
\* the blockhash); an answer comes at once or after 40 s.
SwapEnvs ==
    {[fail_stage |-> "pool", send_ok_at |-> 0, blocked |-> b] : b \in {<<0, 0, 0>>, <<400, 0, 0>>}}
    \cup {[fail_stage |-> "none", send_ok_at |-> k, blocked |-> <<0, 0, 0>>] : k \in 0..MaxRetries}
    \cup {[fail_stage |-> "none", send_ok_at |-> 0, blocked |-> b] : b \in {<<400, 0, 0>>, <<0, 400, 0>>}}
    \cup {[fail_stage |-> "none", send_ok_at |-> 1, blocked |-> <<400, 0, 0>>]}

RECURSIVE SleepEnd(_, _)
\* the instant, in tenths of a second after the leg started, at which backoff
\* sleep k of send_transaction_with_retry ends: sleep k lasts 100 ms * k
SleepEnd(env, k) ==
    IF k = 0 THEN 0
    ELSE SleepEnd(env, k - 1) + env.blocked[k] + (BackoffDelay(k - 1) \div 100)

\* tokio::time::timeout(tx_timeout, future): the future is polled first and the
\* deadline is looked at only when the future is pending, which execute_swap is
\* in its backoff sleeps only.  The number of the first sleep that ends after
\* the deadline, 0 if none does.
ExpiresAtSleep(tx_timeout, env) ==
    LET late == {k \in 1..(MaxRetries - 1) : tx_timeout * 10 < SleepEnd(env, k)}
    IN  IF late = {} THEN 0 ELSE CHOOSE k \in late : \A m \in late : k <= m

\* the time the leg took, in tenths of a second, given how execute_swap under
\* the timeout ended
LegElapsed(tx_timeout, env, r) ==
    LET n == Max(r.sends, 1)
        last_call_end == SleepEnd(env, n - 1) + env.blocked[n]
    IN  IF r.rpc_calls = 0 THEN 0
        ELSE IF r.err = "timeout" THEN Max(tx_timeout * 10, last_call_end)
        ELSE last_call_end

(***************************************************************************)
(* ArbitrageEngine: execution                                              *)
(***************************************************************************)
\* get_actual_slippage: the configured tolerance, 1.0 when it does not parse
GetActualSlippage(cfg) == DecimalFromF64(cfg.slippage_tolerance, DecFromInt(1))

\* a minimum output that leaves the slippage out
MinOutputNoSlippage(opp, actual_slippage) == DecMul(opp.trade_amount, opp.sell_price)

\* lines 187-188: trade_amount * sell_price * (1 - slippage / 100)
MinOutput(opp, actual_slippage) ==
    LET slippage_multiplier == DecFromInt(1) - RatioMul(DecDiv(actual_slippage, DecFromInt(100)), DecFromInt(1))
    IN  DecMul(DecMul(opp.trade_amount, opp.sell_price), slippage_multiplier)

\* a check that takes every venue pair for atomic
CanExecuteAtomicallyAlways(buy_dex, sell_dex) == TRUE

\* can_execute_atomically
CanExecuteAtomically(buy_dex, sell_dex) == FALSE

\* timeout(tx_timeout, future).await.context(..)?.context(..)?: the error a leg
\* ends with, "none" on success
LegError(leg, r) ==
    CASE r.ok -> "none"
      [] r.err = "timeout" -> IF leg = "buy" THEN "buy_timeout" ELSE "sell_timeout"
      [] OTHER -> IF leg = "buy" THEN "buy_error" ELSE "sell_error"

TransientErrors == {"buy_timeout", "buy_error", "sell_timeout", "sell_error"}

\* a check of the failure limit that only sees the ceiling itself
LimitReachedExactly(failures, ceiling) == failures = ceiling

\* the check of the failure limit, one failure late
LimitReachedLate(failures, ceiling) == failures > ceiling

\* line 248: the check of the failure limit
LimitReached(failures, ceiling) == failures >= ceiling

\* lines 241-256: the Err arm of execute_arbitrage, failures already incremented
FailureReturn(failures, ceiling, e) ==
    IF LimitReached(failures, ceiling)
    THEN [ok |-> FALSE, err |-> "limit_reached"]
    ELSE [ok |-> FALSE, err |-> e]

\* a success that leaves the counter as it was
FailuresKept(failures) == failures

\* line 221: the counter after a successful execution
FailuresAfterSuccess(failures) == 0

(***************************************************************************)
(* Tasks                                                                   *)
(***************************************************************************)
Loop == 0
Free == 0 - 1
Handlers == 1..NumHandlers
Tasks == {Loop} \cup Handlers

NoOpp == [from_dex |-> "", to_dex |-> "", base_token |-> <<>>, quote_token |-> <<>>,
          buy_price |-> 0, sell_price |-> 0, profit_percent |-> 0,
          profit_percent_after_fees |-> 0, trade_amount |-> 0, estimated_fees |-> 0]
NoExec == [opp |-> NoOpp, buy_dex |-> 0, sell_dex |-> 0, min_output |-> 0,
           tx_timeout |-> 0, path |-> "none"]
NoReturn == [ok |-> TRUE, err |-> "not_called"]
NoScan == [ok |-> TRUE, opps |-> <<>>, trace |-> <<>>, sized |-> <<>>, queried |-> <<>>,
           get_price_calls |-> 0, err_pair |-> 0, called |-> FALSE]

\* an environment with neither variable set, and no credential check made
Unset == <<"unset">>
NoEnv == [username |-> Unset, password |-> Unset]
NoAuth == [checked |-> FALSE, username |-> <<>>, password |-> <<>>, http |-> 0, ws |-> FALSE]

Dexes == DexManagerNew(config.enabled_dexes)

(***************************************************************************)
(* Environment of a scan                                                   *)
(***************************************************************************)
\* the prices the adapters quote: 80, 100 and 105 to a scan on its own, 100
\* and 105 to the scans of the running system
Prices == {8000, 10000, 10500}
SysPrices == {10000, 10500}

\* DexInterface::get_price answers: a price or an error
QuotesOf(prices) == {[ok |-> FALSE, price |-> 0]} \cup {[ok |-> TRUE, price |-> x] : x \in prices}

\* every answer the adapters can give in the price pass of one scan
OraclesOf(prices) == [1..Len(config.trading_pairs) -> [1..Len(Dexes) -> QuotesOf(prices)]]
Oracles == OraclesOf(Prices)
SysOracles == OraclesOf(SysPrices)

\* numbers a first failing liquidity re-query can have: two re-queries per
\* candidate, and of two venues at most one direction is a candidate
LiqFailures == 0..(Len(config.trading_pairs) * Len(Dexes) * (Len(Dexes) - 1))

(***************************************************************************)
(* Configurations                                                          *)
(***************************************************************************)
SysConfigs ==
    [min_profit_percent : {F64(100)},
     max_trade_amount_sol : {F64(5000)},
     slippage_tolerance : {F64(100)},
     enabled_dexes : {<<"raydium", "orca">>, <<"serum", "raydium">>},
     trading_pairs : {<< <<"S", "/", "U">> >>},
     transaction_timeout_sec : {30},
     simulation_mode : BOOLEAN,
     max_consecutive_failures : 0..MaxCeiling]

\* Config::validate (config.rs 146-169), on the fields kept here: a value that
\* is not a number passes both comparisons
Validate(cfg) ==
    /\ ~(~cfg.min_profit_percent.nan /\ cfg.min_profit_percent.v <= 0)
    /\ ~(~cfg.max_trade_amount_sol.nan /\ cfg.max_trade_amount_sol.v <= 0)

TypeOK ==
    /\ consecutive_failures \in Nat
    /\ engine_lock \in Tasks \cup {Free}

Init ==
    /\ config \in SysConfigs
    /\ consecutive_failures = 0
    /\ engine_lock = Free
    /\ pc = [t \in Tasks |-> IF t = Loop THEN "scan_wait" ELSE "idle"]
    /\ opportunities = <<>>
    /\ exec = NoExec
    /\ swap_log = <<>>
    /\ monitor_log = <<>>
    /\ last_return = NoReturn
    /\ failures_before = 0
    /\ fail_run = 0
    /\ scan_result = NoScan
    /\ http_status = 0
    /\ bot_status = "running"
    /\ web_env = NoEnv
    /\ auth = NoAuth

(***************************************************************************)
(* run_arbitrage_loop (src/src/main.rs)                                    *)
(***************************************************************************)
\* a lock() that does not wait for the owner
LockNotAwaited(t) == TRUE

\* the guard of engine.lock().await
LockFree(t) == engine_lock = Free

\* a scan whose failure is counted as a failed execution
FailuresAfterScanCounted(failures, r) == IF r.ok THEN failures ELSE failures + 1

\* arbitrage.rs 54: find_opportunities takes &self and assigns no field
FailuresAfterScan(failures, r) == failures

\* arbitrage.rs 77 and 327: get_price(..).await has no timeout around it, so
\* no deadline is armed for a call that is waiting
GetPriceDeadlineArmed == FALSE

\* arbitrage.rs 77 and 327: a scan that makes a get_price call to an adapter
\* that never answers stays in the await, with the guard its caller holds
GetPriceBlocked(t) ==
    /\ pc[t] = "scanning"
    /\ \E oracle \in SysOracles : FindOpportunities(config, oracle, 0).get_price_calls > 0
    /\ pc' = [pc EXCEPT ![t] = "scan_blocked"]
    /\ UNCHANGED <<config, consecutive_failures, engine_lock, opportunities, exec, swap_log,
                   monitor_log, last_return, failures_before, fail_run, scan_result, http_status,
                   bot_status, web_env, auth>>

\* line 118: engine.lock().await before the scan
LoopLockScan ==
    /\ pc[Loop] = "scan_wait"
    /\ LockFree(Loop)
    /\ engine_lock' = Loop
    /\ pc' = [pc EXCEPT ![Loop] = "scanning"]
    /\ UNCHANGED <<config, consecutive_failures, opportunities, exec, swap_log, monitor_log,
                   last_return, failures_before, fail_run, scan_result, http_status,
                   bot_status, web_env, auth>>

\* lines 119-127: find_opportunities returns, the guard is dropped, the result is matched
LoopScan ==
    /\ pc[Loop] = "scanning"
    /\ \E oracle \in SysOracles, fail_at \in LiqFailures :
          LET r == FindOpportunities(config, oracle, fail_at)
          IN  /\ opportunities' = IF r.ok THEN r.opps ELSE <<>>
              /\ consecutive_failures' = FailuresAfterScan(consecutive_failures, r)
    /\ engine_lock' = Free
    /\ pc' = [pc EXCEPT ![Loop] = "next_opp"]
    /\ UNCHANGED <<config, exec, swap_log, monitor_log,
                   last_return, failures_before, fail_run, scan_result, http_status,
                   bot_status, web_env, auth>>

\* line 155: no opportunity is left, sleep(check_interval), next round
LoopSleep ==
    /\ pc[Loop] = "next_opp"
    /\ opportunities = <<>>
    /\ pc' = [pc EXCEPT ![Loop] = "scan_wait"]
    /\ UNCHANGED <<config, consecutive_failures, engine_lock, opportunities, exec, swap_log,
                   monitor_log, last_return, failures_before, fail_run, scan_result, http_status,
                   bot_status, web_env, auth>>

\* a venue lookup error that is counted as a failed execution
FailuresAfterLookupCounted(failures) == failures + 1

\* arbitrage.rs 168-171: the `?` of the venue lookup returns before the counter
\* is touched
FailuresAfterLookupError(failures) == failures

\* a guard that outlives the call
GuardKeptAfterExecution == Loop

\* main.rs 132-135: engine_guard goes out of scope at the end of the block
\* that calls execute_arbitrage, whatever the call returned
GuardAfterExecution == Free

\* a loop that gives up the rest of the list
RemainingNone(opps) == <<>>

\* main.rs 128: for opp in opportunities: the opportunities after the one taken
RemainingOpportunities(opps) == Tail(opps)

\* lines 128-134 and arbitrage.rs 156-213: the next opportunity is taken, the
\* guard is acquired and execute_arbitrage runs up to the submission of the
\* buy leg; a venue that is not registered ends the call at once
LoopExecBegin ==
    /\ pc[Loop] = "next_opp"
    /\ opportunities # <<>>
    /\ LockFree(Loop)
    /\ LET opp == Head(opportunities)
           buy_dex == GetDex(Dexes, opp.from_dex)
           sell_dex == GetDex(Dexes, opp.to_dex)
       IN  /\ opportunities' = RemainingOpportunities(opportunities)
           /\ swap_log' = <<>>
           /\ monitor_log' = <<>>
           /\ failures_before' = consecutive_failures
           /\ IF buy_dex = 0 \/ sell_dex = 0
              THEN /\ last_return' = [ok |-> FALSE, err |-> "dex_not_found"]
                   /\ consecutive_failures' = FailuresAfterLookupError(consecutive_failures)
                   /\ fail_run' = fail_run
                   /\ exec' = NoExec
                   /\ engine_lock' = GuardAfterExecution
                   /\ pc' = [pc EXCEPT ![Loop] = "exec_returned"]
              ELSE /\ exec' = [opp |-> opp, buy_dex |-> buy_dex, sell_dex |-> sell_dex,
                               min_output |-> MinOutput(opp, GetActualSlippage(config)),
                               tx_timeout |-> config.transaction_timeout_sec,
                               path |-> IF CanExecuteAtomically(Dexes[buy_dex], Dexes[sell_dex])
                                        THEN "atomic" ELSE "two_step"]
                   /\ engine_lock' = Loop
                   /\ pc' = [pc EXCEPT ![Loop] = "buy_pending"]
                   /\ UNCHANGED <<consecutive_failures, last_return, fail_run>>
    /\ UNCHANGED <<config, scan_result, http_status,
                   bot_status, web_env, auth>>

\* one execute_swap under the leg timeout, as execute_two_step_arbitrage calls it
SwapCall(leg, d, amount, min_output, tx_timeout, env) ==
    LET timed == [fail_stage |-> env.fail_stage, send_ok_at |-> env.send_ok_at,
                  deadline |-> ExpiresAtSleep(tx_timeout, env)]
        r == ExecuteSwap(Dexes, d, config.simulation_mode, timed)
    IN  [leg |-> leg, dex |-> Dexes[d], dry_run |-> config.simulation_mode,
         amount |-> amount, min_output |-> min_output, tx_timeout |-> tx_timeout,
         ok |-> r.ok, err |-> LegError(leg, r), sig |-> r.sig,
         rpc_calls |-> r.rpc_calls, sends |-> r.sends, delays |-> r.delays,
         send_ok_at |-> env.send_ok_at,
         elapsed |-> LegElapsed(tx_timeout, env, r)]

\* a leg that is submitted once more after it failed
SwapCallsRetried(leg, d, amount, min_output, tx_timeout, env) ==
    LET call == SwapCall(leg, d, amount, min_output, tx_timeout, env)
    IN  IF call.ok THEN <<call>> ELSE <<call, call>>

\* arbitrage.rs 398-411 and 421-433: the execute_swap calls one leg makes: one
\* call under the timeout, whose error the `?` returns
SwapCalls(leg, d, amount, min_output, tx_timeout, env) ==
    <<SwapCall(leg, d, amount, min_output, tx_timeout, env)>>

\* a failed leg that is counted twice
FailuresAfterLegFailureTwice(failures) == failures + 2

\* arbitrage.rs 242: self.consecutive_failures += 1
FailuresAfterLegFailure(failures) == failures + 1

\* a failed execution that is not counted
ExecFailUncounted(e) ==
    /\ consecutive_failures' = consecutive_failures
    /\ last_return' = FailureReturn(consecutive_failures, config.max_consecutive_failures, e)
    /\ fail_run' = fail_run + 1
    /\ exec' = NoExec
    /\ engine_lock' = Free
    /\ pc' = [pc EXCEPT ![Loop] = "exec_returned"]
    /\ UNCHANGED <<monitor_log>>

\* arbitrage.rs 241-256 and main.rs 135: the execution failed with error e
ExecFail(e) ==
    /\ consecutive_failures' = FailuresAfterLegFailure(consecutive_failures)
    /\ last_return' = FailureReturn(FailuresAfterLegFailure(consecutive_failures),
                                    config.max_consecutive_failures, e)
    /\ fail_run' = fail_run + 1
    /\ exec' = NoExec
    /\ engine_lock' = GuardAfterExecution
    /\ pc' = [pc EXCEPT ![Loop] = "exec_returned"]
    /\ UNCHANGED <<monitor_log>>

\* a buy leg whose error is not propagated
BuyLegAlwaysContinues(call) == TRUE

\* the buy leg continues to the sell leg only when it returned Ok (the `?` of line 411)
BuyLegContinues(call) == call.ok

\* arbitrage.rs 398-418: the buy leg ends
LoopBuyLeg ==
    /\ pc[Loop] = "buy_pending"
    /\ \E env \in SwapEnvs :
          LET calls == SwapCalls("buy", exec.buy_dex, exec.opp.trade_amount, 0, exec.tx_timeout, env)
              call == calls[Len(calls)]
          IN  /\ call.ok \/ consecutive_failures < MaxFailures
              /\ swap_log' = swap_log \o calls
              /\ IF BuyLegContinues(call)
                 THEN /\ pc' = [pc EXCEPT ![Loop] = "sell_pending"]
                      /\ UNCHANGED <<consecutive_failures, last_return, fail_run, exec,
                                     engine_lock, monitor_log>>
                 ELSE ExecFail(call.err)
    /\ UNCHANGED <<config, opportunities, failures_before, scan_result, http_status,
                   bot_status, web_env, auth>>

\* a log entry that carries the profit before fees
LogArbitrageGross(log, opp, simulation_mode) ==
    Append(log, [from_dex |-> opp.from_dex, to_dex |-> opp.to_dex,
                 profit_percent |-> opp.profit_percent,
                 simulation_mode |-> simulation_mode])

\* arbitrage.rs 232-237 and monitor.rs 20-42: Monitor::log_arbitrage, called in
\* the Ok arm with the profit after fees
LogArbitrage(log, opp, simulation_mode) ==
    Append(log, [from_dex |-> opp.from_dex, to_dex |-> opp.to_dex,
                 profit_percent |-> opp.profit_percent_after_fees,
                 simulation_mode |-> simulation_mode])

\* arbitrage.rs 420-435, 215-240 and main.rs 135: the sell leg ends and
\* execute_arbitrage returns
LoopSellLeg ==
    /\ pc[Loop] = "sell_pending"
    /\ \E env \in SwapEnvs :
          LET calls == SwapCalls("sell", exec.sell_dex, exec.opp.trade_amount, exec.min_output,
                                 exec.tx_timeout, env)
              call == calls[Len(calls)]
          IN  /\ call.ok \/ consecutive_failures < MaxFailures
              /\ swap_log' = swap_log \o calls
              /\ IF call.ok
                 THEN /\ consecutive_failures' = FailuresAfterSuccess(consecutive_failures)
                      /\ monitor_log' = LogArbitrage(monitor_log, exec.opp, config.simulation_mode)
                      /\ last_return' = [ok |-> TRUE, err |-> "none"]
                      /\ fail_run' = 0
                      /\ exec' = NoExec
                      /\ engine_lock' = GuardAfterExecution
                      /\ pc' = [pc EXCEPT ![Loop] = "exec_returned"]
                 ELSE ExecFail(call.err)
    /\ UNCHANGED <<config, opportunities, failures_before, scan_result, http_status,
                   bot_status, web_env, auth>>

\* lines 137-146: the result is matched; an error is logged and the for loop goes on
LoopHandleResult ==
    /\ pc[Loop] = "exec_returned"
    /\ pc' = [pc EXCEPT ![Loop] = "next_opp"]
    /\ swap_log' = <<>>
    /\ monitor_log' = <<>>
    /\ UNCHANGED <<config, consecutive_failures, engine_lock, opportunities, exec,
                   last_return, failures_before, fail_run, scan_result, http_status,
                   bot_status, web_env, auth>>

(***************************************************************************)
(* GET /api/opportunities (src/src/web/handlers.rs)                        *)
(***************************************************************************)
\* line 206: a request arrives and acquires the guard
HandlerLock(h) ==
    /\ pc[h] = "idle"
    /\ LockFree(h)
    /\ engine_lock' = h
    /\ pc' = [pc EXCEPT ![h] = "scanning"]
    /\ UNCHANGED <<config, consecutive_failures, opportunities, exec, swap_log, monitor_log,
                   last_return, failures_before, fail_run, scan_result, http_status,
                   bot_status, web_env, auth>>

\* lines 209-248: the scan returns, the response is built, the guard is dropped
HandlerScan(h) ==
    /\ pc[h] = "scanning"
    /\ \E oracle \in SysOracles, fail_at \in LiqFailures :
          LET r == FindOpportunities(config, oracle, fail_at)
          IN  /\ http_status' = IF r.ok THEN 200 ELSE 500
              /\ consecutive_failures' = FailuresAfterScan(consecutive_failures, r)
    /\ engine_lock' = Free
    /\ pc' = [pc EXCEPT ![h] = "idle"]
    /\ UNCHANGED <<config, opportunities, exec, swap_log, monitor_log,
                   last_return, failures_before, fail_run, scan_result,
                   bot_status, web_env, auth>>

\* POST /api/control/stop (handlers.rs 386-396): the status is set to Stopped
ControlStop ==
    /\ bot_status' = "stopped"
    /\ UNCHANGED <<config, consecutive_failures, engine_lock, pc, opportunities, exec,
                   swap_log, monitor_log, last_return, failures_before, fail_run,
                   scan_result, http_status, web_env, auth>>

\* POST /api/control/start (handlers.rs 373-383): the status is set to Running
ControlStart ==
    /\ bot_status' = "running"
    /\ UNCHANGED <<config, consecutive_failures, engine_lock, pc, opportunities, exec,
                   swap_log, monitor_log, last_return, failures_before, fail_run,
                   scan_result, http_status, web_env, auth>>

Next ==
    \/ LoopLockScan
    \/ LoopScan
    \/ LoopSleep
    \/ LoopExecBegin
    \/ LoopBuyLeg
    \/ LoopSellLeg
    \/ LoopHandleResult
    \/ \E h \in Handlers : HandlerLock(h)
    \/ \E h \in Handlers : HandlerScan(h)
    \/ \E t \in Tasks : GetPriceBlocked(t)
    \/ ControlStop
    \/ ControlStart

Spec == Init /\ [][Next]_vars

\* The running system without the control requests, under the scheduling of
\* the runtime: a task that can take its next step takes it.  A leg ends
\* because every await of execute_swap is under the leg timeout and every
\* blocking RPC call and the number of sends are bounded; the requests of
\* clients are under no obligation to arrive, and a scan under none to return.
NextLive ==
    \/ LoopLockScan
    \/ LoopScan
    \/ LoopSleep
    \/ LoopExecBegin
    \/ LoopBuyLeg
    \/ LoopSellLeg
    \/ LoopHandleResult
    \/ \E h \in Handlers : HandlerLock(h)
    \/ \E h \in Handlers : HandlerScan(h)
    \/ \E t \in Tasks : GetPriceBlocked(t)

\* the configurations the fair system starts with: both modes, the largest
\* ceiling
LiveConfigs ==
    {c \in SysConfigs :
        c.enabled_dexes = <<"raydium", "orca">> /\ c.max_consecutive_failures = MaxCeiling}

InitLive ==
    /\ config \in LiveConfigs
    /\ consecutive_failures = 0
    /\ engine_lock = Free
    /\ pc = [t \in Tasks |-> IF t = Loop THEN "scan_wait" ELSE "idle"]
    /\ opportunities = <<>>
    /\ exec = NoExec
    /\ swap_log = <<>>
    /\ monitor_log = <<>>
    /\ last_return = NoReturn
    /\ failures_before = 0
    /\ fail_run = 0
    /\ scan_result = NoScan
    /\ http_status = 0
    /\ bot_status = "running"
    /\ web_env = NoEnv
    /\ auth = NoAuth

SpecLive ==
    /\ InitLive
    /\ [][NextLive]_vars
    /\ WF_vars(LoopLockScan)
    /\ WF_vars(LoopSleep)
    /\ WF_vars(LoopExecBegin)
    /\ WF_vars(LoopBuyLeg)
    /\ WF_vars(LoopSellLeg)
    /\ WF_vars(LoopHandleResult)

(***************************************************************************)
(* find_opportunities on its own: the configuration and the adapters'      *)
(* answers are drawn, the scan is applied once                             *)
(***************************************************************************)
SU == <<"S", "/", "U">>
RU == <<"R", "/", "U">>

\* the venue lists and pair lists a scan is tried with
ScanShapes ==
    {[enabled_dexes |-> <<"raydium", "orca">>, trading_pairs |-> <<SU>>],
     [enabled_dexes |-> <<"raydium", "orca">>, trading_pairs |-> <<SU, RU>>],
     [enabled_dexes |-> <<"raydium", "orca", "serum">>, trading_pairs |-> <<SU>>],
     [enabled_dexes |-> <<"raydium", "jupiter", "orca">>, trading_pairs |-> <<RU>>],
     [enabled_dexes |-> <<"raydium">>, trading_pairs |-> <<SU>>]}

\* venue lists that register fewer than two adapters
FewDexShapes ==
    {[enabled_dexes |-> <<"raydium">>, trading_pairs |-> <<SU, RU>>],
     [enabled_dexes |-> <<"raydium", "jupiter">>, trading_pairs |-> <<SU>>],
     [enabled_dexes |-> <<>>, trading_pairs |-> <<SU>>]}

\* pair strings that are not two tokens around one '/': "S", "S/U/B", "", "/", "S/"
MalformedPairs == {<<"S">>, <<"S", "/", "U", "/", "B">>, <<>>, <<"/">>, <<"S", "/">>}

MalformedShapes ==
    {[enabled_dexes |-> <<"raydium", "orca">>, trading_pairs |-> <<bad, SU>>] : bad \in MalformedPairs}

\* the same venue enabled twice
DuplicateShapes == {[enabled_dexes |-> <<"raydium", "raydium">>, trading_pairs |-> <<SU>>]}

ScanConfig(m, mx, sh) ==
    [min_profit_percent |-> m,
     max_trade_amount_sol |-> mx,
     slippage_tolerance |-> F64(100),
     enabled_dexes |-> sh.enabled_dexes,
     trading_pairs |-> sh.trading_pairs,
     transaction_timeout_sec |-> 30,
     simulation_mode |-> TRUE,
     max_consecutive_failures |-> 5]

ScanConfigs ==
    {ScanConfig(m, F64(5000), sh) : m \in {F64(100), F64(445), F64(500), NaN}, sh \in ScanShapes}
    \cup {ScanConfig(F64(100), F64(5000), [enabled_dexes |-> <<"raydium", "orca", "serum">>,
                                           trading_pairs |-> <<SU, RU>>])}
    \cup {ScanConfig(F64(100), mx, [enabled_dexes |-> <<"raydium", "orca">>,
                                    trading_pairs |-> <<SU>>]) : mx \in {F64(20000), NaN}}
    \cup {ScanConfig(F64(100), F64(5000), sh) :
              sh \in FewDexShapes \cup MalformedShapes \cup DuplicateShapes}

InitScan ==
    /\ config \in ScanConfigs
    /\ consecutive_failures = 0
    /\ engine_lock = Free
    /\ pc = [t \in Tasks |-> "idle"]
    /\ opportunities = <<>>
    /\ exec = NoExec
    /\ swap_log = <<>>
    /\ monitor_log = <<>>
    /\ last_return = NoReturn
    /\ failures_before = 0
    /\ fail_run = 0
    /\ scan_result = NoScan
    /\ http_status = 0
    /\ bot_status = "running"
    /\ web_env = NoEnv
    /\ auth = NoAuth

\* engine.find_opportunities().await, called once on a fresh engine
FindOpportunitiesCall ==
    /\ ~scan_result.called
    /\ \E oracle \in Oracles, fail_at \in LiqFailures :
          scan_result' = FindOpportunities(config, oracle, fail_at)
    /\ UNCHANGED <<config, consecutive_failures, engine_lock, pc, opportunities, exec,
                   swap_log, monitor_log, last_return, failures_before, fail_run, http_status,
                   bot_status, web_env, auth>>

NextScan == FindOpportunitiesCall

SpecScan == InitScan /\ [][NextScan]_vars

(***************************************************************************)
(* execute_arbitrage on its own: a caller hands the engine a list of       *)
(* opportunities of its own making, one after the other                    *)
(***************************************************************************)
\* the venues a caller names: registered ones, or one that is not
ExecVenues == {<<"raydium", "orca">>, <<"jupiter", "orca">>, <<"raydium", "jupiter">>}

\* ArbitrageOpportunity: buy at 100, sell at 105, trade_amount as given
ExecOpp(v, amount) ==
    [from_dex |-> v[1], to_dex |-> v[2], base_token |-> <<"S">>, quote_token |-> <<"U">>,
     buy_price |-> 10000, sell_price |-> 10500,
     profit_percent |-> 500,
     profit_percent_after_fees |-> 500 - (GetDexFee(v[1]) + GetDexFee(v[2])),
     trade_amount |-> amount,
     estimated_fees |-> amount * (GetDexFee(v[1]) + GetDexFee(v[2]))]

\* the amounts a caller gives: none, 1 and 2
ExecOpps == {ExecOpp(v, amount) : v \in ExecVenues, amount \in {0, 100, 200}}

ExecOppLists == {<<a>> : a \in ExecOpps} \cup {<<a, b>> : a \in ExecOpps, b \in ExecOpps}

ExecConfigs ==
    [min_profit_percent : {F64(100)},
     max_trade_amount_sol : {F64(5000)},
     slippage_tolerance : {F64(100), F64(200), F64(15000), NaN},
     enabled_dexes : {<<"raydium", "orca">>},
     trading_pairs : {<<SU>>},
     transaction_timeout_sec : {0, 30},
     simulation_mode : BOOLEAN,
     max_consecutive_failures : 0..MaxCeiling]

InitExec ==
    /\ config \in ExecConfigs
    /\ consecutive_failures = 0
    /\ engine_lock = Free
    /\ pc = [t \in Tasks |-> IF t = Loop THEN "next_opp" ELSE "idle"]
    /\ opportunities \in ExecOppLists
    /\ exec = NoExec
    /\ swap_log = <<>>
    /\ monitor_log = <<>>
    /\ last_return = NoReturn
    /\ failures_before = 0
    /\ fail_run = 0
    /\ scan_result = NoScan
    /\ http_status = 0
    /\ bot_status = "running"
    /\ web_env = NoEnv
    /\ auth = NoAuth

NextExec ==
    \/ LoopExecBegin
    \/ LoopBuyLeg
    \/ LoopSellLeg
    \/ LoopHandleResult

SpecExec == InitExec /\ [][NextExec]_vars

(***************************************************************************)
(* Credential checks of the web interface (src/src/web/auth.rs): the       *)
(* environment is drawn, one credential pair is put to both checks         *)
(***************************************************************************)
\* "admin", the user name when WEB_USERNAME is not set
Admin == <<"a", "d", "m", "i", "n">>

\* general_purpose::STANDARD.encode: the text in its base64 form
Base64Encode(text) == <<"b64">> \o text

\* general_purpose::STANDARD.decode and String::from_utf8: the text of a
\* base64 form, an error for anything else
Base64Decode(token) ==
    IF token # <<>> /\ Head(token) = "b64"
    THEN [ok |-> TRUE, text |-> Tail(token)]
    ELSE [ok |-> FALSE, text |-> <<>>]

\* format!("{}:{}", username, password)
Credentials(username, password) == username \o <<":">> \o password

\* splitn(2, ':'): the text up to the first colon and the text after it; one
\* part when there is no colon
SplitN2(text) ==
    LET colons == {i \in 1..Len(text) : text[i] = ":"}
    IN  IF colons = {} THEN <<text>>
        ELSE LET c == CHOOSE i \in colons : \A k \in colons : i <= k
             IN  <<SubSeq(text, 1, c - 1), SubSeq(text, c + 1, Len(text))>>

\* env::var("WEB_USERNAME").unwrap_or_else(|_| "admin")
ExpectedUsername(env) == IF env.username = Unset THEN Admin ELSE env.username

\* auth_middleware on a request with the header "Basic <token>": the status it
\* answers with, 200 standing for the request handed on to its handler
AuthMiddleware(token, env) ==
    LET decoded == Base64Decode(token)
        parts == SplitN2(decoded.text)
    IN  IF ~decoded.ok THEN 401
        ELSE IF Len(parts) # 2 THEN 401
        ELSE IF env.password = Unset THEN 500
        ELSE IF parts[1] = ExpectedUsername(env) /\ parts[2] = env.password THEN 200
        ELSE 401

\* verify_ws_token: WEB_PASSWORD that is not set counts as the empty password
VerifyWsToken(token, env) ==
    LET expected_password == IF env.password = Unset THEN <<>> ELSE env.password
        expected_token == Base64Encode(Credentials(ExpectedUsername(env), expected_password))
    IN  token = expected_token

\* the settings of WEB_USERNAME and WEB_PASSWORD
WebEnvs ==
    [username : {Unset, <<"b">>, <<"b", ":", "c">>},
     password : {Unset, <<>>, <<"p">>}]

\* the user names and passwords a client presents
ClientUsernames == {Admin, <<>>, <<"b">>, <<"b", ":", "c">>}
ClientPasswords == {<<>>, <<"p">>, <<"c", ":", "p">>}

InitAuth ==
    /\ config = CHOOSE c \in SysConfigs : TRUE
    /\ consecutive_failures = 0
    /\ engine_lock = Free
    /\ pc = [t \in Tasks |-> "idle"]
    /\ opportunities = <<>>
    /\ exec = NoExec
    /\ swap_log = <<>>
    /\ monitor_log = <<>>
    /\ last_return = NoReturn
    /\ failures_before = 0
    /\ fail_run = 0
    /\ scan_result = NoScan
    /\ http_status = 0
    /\ bot_status = "running"
    /\ web_env \in WebEnvs
    /\ auth = NoAuth

\* one credential pair is sent as the Authorization header of a protected
\* route and as the token of a WebSocket route
AuthCheck ==
    /\ ~auth.checked
    /\ \E username \in ClientUsernames, password \in ClientPasswords :
          LET token == Base64Encode(Credentials(username, password))
          IN  auth' = [checked |-> TRUE, username |-> username, password |-> password,
                       http |-> AuthMiddleware(token, web_env),
                       ws |-> VerifyWsToken(token, web_env)]
    /\ UNCHANGED <<config, consecutive_failures, engine_lock, pc, opportunities, exec,
                   swap_log, monitor_log, last_return, failures_before, fail_run,
                   scan_result, http_status, bot_status, web_env>>

NextAuth == AuthCheck

SpecAuth == InitAuth /\ [][NextAuth]_vars

(***************************************************************************)
(* Properties of the scan                                                  *)
(***************************************************************************)
Range(s) == {s[i] : i \in 1..Len(s)}

\* the minimum the engine compares with
MinProfit == DecimalFromF64(config.min_profit_percent, 0)

\* C8: whatever the adapters' get_price calls answer during a scan,
\* find_opportunities returns Ok.
C8_ScanAlwaysOk == scan_result.called => scan_result.ok

\* C9: of the candidates a scan found, exactly those whose net profit is at
\* least the configured minimum are returned (a net profit equal to the
\* minimum is kept), and nothing else is returned.
C9_MinProfitFilter ==
    (scan_result.called /\ scan_result.ok) =>
        /\ \A c \in Range(scan_result.sized) :
              (c.opp \in Range(scan_result.opps)) <=> (c.opp.profit_percent_after_fees >= MinProfit)
        /\ \A o \in Range(scan_result.opps) :
              /\ o.profit_percent_after_fees >= MinProfit
              /\ \E c \in Range(scan_result.sized) : c.opp = o

\* C9 witness: a scan kept a candidate whose net profit equals the minimum
\* (buy 100, sell 105 on raydium and orca, minimum 4.45).
C9_Witness ==
    /\ scan_result.called /\ scan_result.ok
    /\ \E c \in Range(scan_result.sized) :
          /\ c.opp.profit_percent_after_fees = MinProfit
          /\ c.opp.buy_price = 10000 /\ c.opp.sell_price = 10500
          /\ c.opp \in Range(scan_result.opps)

\* the loop indices (pair, i, j) at which a returned opportunity was pushed
EncounterKey(o) == CHOOSE t \in Range(scan_result.trace) : t.opp = o

KeyBefore(s, t) ==
    \/ s.p < t.p
    \/ s.p = t.p /\ s.i < t.i
    \/ s.p = t.p /\ s.i = t.i /\ s.j < t.j

\* C10: the returned sequence is in non-increasing order of net profit, and
\* opportunities of equal net profit are in the order the scan met them
\* (pair, then buy venue, then sell venue).
C10_SortedStable ==
    (scan_result.called /\ scan_result.ok) =>
        \A a, b \in 1..Len(scan_result.opps) :
            a < b =>
              /\ scan_result.opps[a].profit_percent_after_fees
                    >= scan_result.opps[b].profit_percent_after_fees
              /\ (/\ scan_result.opps[a].profit_percent_after_fees
                        = scan_result.opps[b].profit_percent_after_fees
                  /\ scan_result.opps[a] # scan_result.opps[b])
                   => KeyBefore(EncounterKey(scan_result.opps[a]), EncounterKey(scan_result.opps[b]))

\* C10 witness: a scan returned two distinct opportunities of equal net profit
\* behind one of higher net profit that the scan met later.
C10_Witness ==
    /\ scan_result.called /\ scan_result.ok
    /\ \E a, b \in 1..Len(scan_result.opps) :
          /\ a < b
          /\ scan_result.opps[a] # scan_result.opps[b]
          /\ scan_result.opps[a].profit_percent_after_fees
                = scan_result.opps[b].profit_percent_after_fees
    /\ \E a, b \in 1..Len(scan_result.opps) :
          /\ a < b
          /\ scan_result.opps[a].profit_percent_after_fees
                > scan_result.opps[b].profit_percent_after_fees
          /\ KeyBefore(EncounterKey(scan_result.opps[b]), EncounterKey(scan_result.opps[a]))

\* C11: with fewer than two registered adapters a scan returns Ok with the
\* empty sequence and makes no get_price call, whatever pairs are configured.
C11_FewAdaptersNoScan ==
    (scan_result.called /\ Len(Dexes) < 2) =>
        /\ scan_result.ok
        /\ scan_result.opps = <<>>
        /\ scan_result.get_price_calls = 0
        /\ scan_result.queried = <<>>

\* C11 witness: a scan ran with two venues enabled of which one is registered.
C11_Witness ==
    /\ scan_result.called
    /\ Len(config.enabled_dexes) = 2 /\ Len(Dexes) = 1
    /\ Len(config.trading_pairs) >= 1

\* the maximum the engine sizes with
MaxAmount == DecimalFromF64(config.max_trade_amount_sol, 0)

\* C12: every returned opportunity has a trade_amount above 0, at most the
\* configured max_trade_amount_sol and at most the lesser of the two venues'
\* liquidity it was sized with.
C12_TradeAmountBounded ==
    (scan_result.called /\ scan_result.ok) =>
        \A o \in Range(scan_result.opps) :
            /\ o.trade_amount > 0
            /\ o.trade_amount <= MaxAmount
            /\ \E c \in Range(scan_result.sized) :
                  c.opp = o /\ o.trade_amount <= c.liquidity

\* C12 witness: an opportunity was returned whose trade_amount is the
\* configured maximum, below the tenth of the liquidity.
C12_Witness ==
    /\ scan_result.called /\ scan_result.ok
    /\ \E c \in Range(scan_result.sized) :
          /\ c.opp \in Range(scan_result.opps)
          /\ c.opp.trade_amount = MaxAmount
          /\ MaxAmount * 10 < c.liquidity

\* the price the adapter registered under name n answered for the pair of o
\* in the price pass of the scan is x
QuotedInScan(o, n, x) ==
    \E q \in Range(scan_result.queried) :
        /\ q.base_token = o.base_token /\ q.quote_token = o.quote_token
        /\ \E d \in 1..Len(Dexes) :
              Dexes[d] = n /\ q.quotes[d].ok /\ q.quotes[d].price = x

\* C13: every returned opportunity has profit_percent equal to
\* (sell_price - buy_price) / buy_price * 100 with nothing lost, where
\* buy_price and sell_price are the prices its two venues quoted in that scan.
C13_ProfitPercentExact ==
    (scan_result.called /\ scan_result.ok) =>
        \A o \in Range(scan_result.opps) :
            /\ o.sell_price > o.buy_price
            /\ o.profit_percent * o.buy_price = (o.sell_price - o.buy_price) * 100 * DecScale
            /\ QuotedInScan(o, o.from_dex, o.buy_price)
            /\ QuotedInScan(o, o.to_dex, o.sell_price)

\* C13 witness: an opportunity bought at 100 and sold at 105 was returned
\* with a profit_percent of 5.
C13_Witness ==
    /\ scan_result.called /\ scan_result.ok
    /\ \E o \in Range(scan_result.opps) :
          o.buy_price = 10000 /\ o.sell_price = 10500 /\ o.profit_percent = 500

\* the fee percentages the venues are documented with
StaticFee(n) == IF n = "raydium" THEN 25 ELSE IF n = "orca" THEN 30 ELSE IF n = "serum" THEN 4 ELSE 25

\* C14: every returned opportunity has profit_percent_after_fees equal to
\* profit_percent less the fees of its two venues (raydium 0.25, orca 0.3,
\* serum 0.04), and a venue of any other name is charged 0.25.
C14_NetProfit ==
    /\ (scan_result.called /\ scan_result.ok) =>
          \A o \in Range(scan_result.opps) :
              /\ o.from_dex \in KnownDexes /\ o.to_dex \in KnownDexes
              /\ o.profit_percent_after_fees
                    = o.profit_percent - (StaticFee(o.from_dex) + StaticFee(o.to_dex))
    /\ \A n \in {"jupiter", "dex1", ""} : GetDexFee(n) = 25

\* C14 witness: with fees of 0.25 and 0.25, an opportunity bought at 100 and
\* sold at 105 was returned with a net profit of 4.5.
C14_Witness ==
    /\ scan_result.called /\ scan_result.ok
    /\ \E o \in Range(scan_result.opps) :
          /\ o.from_dex = "raydium" /\ o.to_dex = "raydium"
          /\ o.buy_price = 10000 /\ o.sell_price = 10500
          /\ o.profit_percent_after_fees = 450

\* the number of adapters that answered with a price for a queried pair
Answered(q) == Cardinality({d \in DOMAIN q.quotes : q.quotes[d].ok})

\* the pair with index p was queried
Queried(p) == \E q \in Range(scan_result.queried) : q.p = p

\* C15: a pair for which fewer than two adapters answered adds no candidate
\* and raises no error; the scan goes on with the next pair, and a scan in
\* which no pair has two answers returns Ok with the empty sequence.
C15_FewPricesSkipped ==
    scan_result.called =>
        /\ \A q \in Range(scan_result.queried) :
              Answered(q) < 2 =>
                  /\ \A c \in Range(scan_result.sized) : c.p # q.p
                  /\ \A t \in Range(scan_result.trace) : t.p # q.p
                  /\ scan_result.err_pair # q.p
                  /\ \A p2 \in (q.p + 1)..Len(config.trading_pairs) :
                        (/\ Len(Split(config.trading_pairs[p2])) = 2
                         /\ (scan_result.err_pair = 0 \/ p2 <= scan_result.err_pair))
                            => Queried(p2)
        /\ (\A q \in Range(scan_result.queried) : Answered(q) < 2) =>
              scan_result.ok /\ scan_result.opps = <<>>

\* C15 witness: the first pair got one answer, and the scan returned an
\* opportunity of the second pair.
C15_Witness ==
    /\ scan_result.called /\ scan_result.ok
    /\ \E q \in Range(scan_result.queried) : q.p = 1 /\ Answered(q) = 1
    /\ \E t \in Range(scan_result.trace) : t.p = 2 /\ t.opp \in Range(scan_result.opps)

\* a pair string is two non-empty tokens around a single '/'
WellFormedPair(s) ==
    \E k \in 2..(Len(s) - 1) :
        s[k] = "/" /\ \A m \in 1..Len(s) : m # k => s[m] # "/"

\* C16: a configured pair string that is not two non-empty tokens around one
\* '/' is skipped: no adapter is asked for its price and the scan does not
\* fail at it.
C16_MalformedPairsSkipped ==
    scan_result.called =>
        \A p \in 1..Len(config.trading_pairs) :
            ~WellFormedPair(config.trading_pairs[p]) =>
                /\ ~Queried(p)
                /\ scan_result.err_pair # p
                /\ \A t \in Range(scan_result.trace) : t.p # p

\* C22: when the sizing of a candidate fails during a scan, the scan still
\* returns Ok and returns every sized candidate whose net profit reaches the
\* minimum.
C22_SizingFailureDiscardsOne ==
    scan_result.called =>
        \/ scan_result.err_pair = 0
        \/ /\ scan_result.ok
           /\ \A c \in Range(scan_result.sized) :
                 c.opp.profit_percent_after_fees >= MinProfit => c.opp \in Range(scan_result.opps)

\* C27: the registry is built without error exactly when at least one adapter
\* could be built from the configured venue list.
C27_ConstructionFailsIffNoAdapter ==
    scan_result.called =>
        (DexManagerNewOk(config.enabled_dexes) <=> Len(DexManagerNew(config.enabled_dexes)) >= 1)

\* the liquidity the sizing is to work with for a venue name
ExpectedLiquidity(n, price_ok) ==
    IF n \notin Range(Dexes) THEN MaxAmount * 10
    ELSE IF price_ok THEN DecFromInt(1000) ELSE 0

\* min(max_trade_amount, 0.1 * L, L)
ExpectedSize(L) == Min(Min(MaxAmount, L \div 10), L)

\* C29: calculate_optimal_trade_amount returns min(max, 0.1 * L, L) for the
\* lesser L of the two liquidities, an undetermined liquidity counting as
\* 10 * max, and fails when that is not above 0; every sized candidate of a
\* scan carries that amount.
C29_SizingFormula ==
    /\ \A b \in {"raydium", "orca", "jupiter"}, s \in {"raydium", "orca", "jupiter"},
          bo \in BOOLEAN, so \in BOOLEAN :
          LET L == Min(ExpectedLiquidity(b, bo), ExpectedLiquidity(s, so))
              r == CalculateOptimalTradeAmount(config, Dexes, b, s, bo, so)
          IN  /\ r.ok <=> ExpectedSize(L) > 0
              /\ r.ok => r.value = ExpectedSize(L)
              /\ r.liquidity = L
    /\ CalculateOptimalTradeAmount(config, Dexes, "jupiter", "lifinity", FALSE, FALSE).value = MaxAmount
    /\ scan_result.called =>
          \A c \in Range(scan_result.sized) : c.opp.trade_amount = ExpectedSize(c.liquidity)

\* C29 witness: a scan sized a candidate with liquidity 1000 and maximum 50
\* and returned it with a trade_amount of 50.
C29_Witness ==
    /\ scan_result.called /\ scan_result.ok
    /\ MaxAmount = 5000
    /\ \E c \in Range(scan_result.sized) :
          /\ c.liquidity = 100000
          /\ c.opp.trade_amount = 5000
          /\ c.opp \in Range(scan_result.opps)

\* the position of adapter d among the adapters that answered for the pair
Rank(q, d) == Cardinality({e \in 1..d : q.quotes[e].ok})

\* the candidates a scan sized for pair q between adapters d1 and d2
CandidatesOf(q, d1, d2) ==
    {c \in Range(scan_result.sized) :
        c.p = q.p /\ {c.i, c.j} = {Rank(q, d1), Rank(q, d2)}}

\* C30: in a scan that returned Ok, for each queried pair and each two
\* adapters that both answered, there is no candidate when the prices are
\* equal and exactly one when they differ, buying at the adapter with the
\* lower price and selling at the other; every returned opportunity has
\* sell_price > buy_price.
C30_OneCandidatePerVenuePair ==
    (scan_result.called /\ scan_result.ok) =>
        /\ \A q \in Range(scan_result.queried) :
              \A d1 \in DOMAIN q.quotes, d2 \in DOMAIN q.quotes :
                  (d1 < d2 /\ q.quotes[d1].ok /\ q.quotes[d2].ok) =>
                      LET lo == IF q.quotes[d1].price < q.quotes[d2].price THEN d1 ELSE d2
                          hi == IF lo = d1 THEN d2 ELSE d1
                      IN  IF q.quotes[d1].price = q.quotes[d2].price
                          THEN CandidatesOf(q, d1, d2) = {}
                          ELSE /\ Cardinality(CandidatesOf(q, d1, d2)) = 1
                               /\ \A c \in CandidatesOf(q, d1, d2) :
                                     /\ c.i = Rank(q, lo) /\ c.j = Rank(q, hi)
                                     /\ c.opp.from_dex = Dexes[lo] /\ c.opp.to_dex = Dexes[hi]
                                     /\ c.opp.buy_price = q.quotes[lo].price
                                     /\ c.opp.sell_price = q.quotes[hi].price
        /\ \A c \in Range(scan_result.sized) : c.opp.sell_price > c.opp.buy_price
        /\ \A o \in Range(scan_result.opps) : o.sell_price > o.buy_price

\* C30 witness: three adapters quoted 105, 100 and 100 for a pair: the scan
\* sized one candidate from the second and one from the third adapter to the
\* first, and none between the second and the third.
C30_Witness ==
    /\ scan_result.called /\ scan_result.ok
    /\ \E q \in Range(scan_result.queried) :
          /\ Len(q.quotes) = 3
          /\ q.quotes[1] = [ok |-> TRUE, price |-> 10500]
          /\ q.quotes[2] = [ok |-> TRUE, price |-> 10000]
          /\ q.quotes[3] = [ok |-> TRUE, price |-> 10000]
          /\ Cardinality(CandidatesOf(q, 1, 2)) = 1
          /\ Cardinality(CandidatesOf(q, 1, 3)) = 1
          /\ CandidatesOf(q, 2, 3) = {}

\* C36: every opportunity a scan returns names two different venues, whatever
\* the enabled-venue list the registry was built from and whatever the prices.
C36_VenuesDiffer ==
    (scan_result.called /\ scan_result.ok) =>
        \A o \in Range(scan_result.opps) : o.from_dex # o.to_dex

(***************************************************************************)
(* Properties of the execution and of the tasks sharing the engine         *)
(***************************************************************************)
Ceiling == config.max_consecutive_failures

\* execute_arbitrage has just returned to the polling loop
ExecReturned == pc[Loop] = "exec_returned"

\* execute_arbitrage is in flight
ExecInFlight == pc[Loop] \in {"buy_pending", "sell_pending"}

\* task t is inside find_opportunities
InScan(t) == pc[t] \in {"scanning", "scan_blocked"}

\* C1: with a ceiling N >= 1, of N failed executions in a row that start from
\* a counter of 0, each of the first N-1 returns the error of its leg and the
\* N-th returns the failure-limit error, which is none of the leg errors.
C1_FailureEscalation ==
    (ExecReturned /\ ~last_return.ok /\ Ceiling >= 1 /\ fail_run <= Ceiling) =>
        /\ fail_run < Ceiling => last_return.err \in TransientErrors
        /\ fail_run = Ceiling => last_return.err = "limit_reached"
        /\ "limit_reached" \notin TransientErrors

\* C1 witness: the second of two failures in a row, with ceiling 2, returned
\* the failure-limit error.
C1_Witness ==
    /\ ExecReturned /\ Ceiling = 2 /\ fail_run = 2 /\ failures_before = 1
    /\ last_return.err = "limit_reached"

\* C2: when execute_arbitrage returns success, consecutive_failures is 0,
\* whatever it was before the call.
C2_SuccessResets == (ExecReturned /\ last_return.ok) => consecutive_failures = 0

\* C2 witness: a success returned from a call that started with the counter
\* at or above the ceiling.
C2_Witness ==
    /\ ExecReturned /\ last_return.ok
    /\ failures_before >= 1 /\ failures_before >= Ceiling /\ Ceiling >= 1

\* C3: once execute_arbitrage has returned the failure-limit error, the
\* polling loop starts no further execute_arbitrage.
C3_LoopHaltsAfterFatal ==
    [][last_return.err = "limit_reached" =>
         ~(pc[Loop] = "next_opp" /\ pc'[Loop] \in {"buy_pending", "exec_returned"})]_vars

\* C4: while an execution is in flight the polling loop owns the engine guard
\* and no scan runs; at any time at most one scan or execution is in flight,
\* and whoever runs one owns the guard.
C4_GuardExclusive ==
    /\ ExecInFlight => (engine_lock = Loop /\ \A t \in Tasks : ~InScan(t))
    /\ \A t \in Tasks : (InScan(t) \/ pc[t] \in {"buy_pending", "sell_pending"}) => engine_lock = t
    /\ Cardinality({t \in Tasks : InScan(t) \/ pc[t] \in {"buy_pending", "sell_pending"}}) <= 1

\* C4 witness: the sell leg of an execution is pending while a request handler
\* that has already served a scan is not scanning.
C4_Witness ==
    /\ pc[Loop] = "sell_pending"
    /\ http_status = 200
    /\ \E h \in Handlers : pc[h] = "idle"

\* C5: a sell leg is invoked only as the second swap of an execution, after a
\* buy leg that returned success; after a buy leg that failed or timed out no
\* swap follows.
C5_SellAfterBuy ==
    /\ \A i \in 1..Len(swap_log) :
          swap_log[i].leg = "sell" =>
              i = 2 /\ swap_log[1].leg = "buy" /\ swap_log[1].ok
    /\ (Len(swap_log) >= 1 /\ ~swap_log[1].ok) => Len(swap_log) = 1
    /\ pc[Loop] = "sell_pending" => (Len(swap_log) = 1 /\ swap_log[1].ok)

\* C5 witness: in production mode a sell leg was invoked after a buy leg that
\* was accepted on its second send.
C5_Witness ==
    /\ Len(swap_log) = 2 /\ swap_log[2].leg = "sell" /\ ~swap_log[2].dry_run
    /\ swap_log[1].ok /\ swap_log[1].sends = 2

\* the execution that just returned bought and then failed to sell
SellFailedAfterBuy ==
    /\ ExecReturned
    /\ Len(swap_log) >= 2
    /\ swap_log[1].leg = "buy" /\ swap_log[1].ok
    /\ swap_log[2].leg = "sell" /\ ~swap_log[2].ok

\* C6: when the buy leg succeeded and the sell leg failed or timed out,
\* execute_arbitrage returns an error, the counter is one more than before the
\* call, no trade is recorded and no third swap was submitted.
C6_SellFailureSurfaced ==
    SellFailedAfterBuy =>
        /\ ~last_return.ok
        /\ consecutive_failures = failures_before + 1
        /\ monitor_log = <<>>
        /\ Len(swap_log) = 2

\* C6 witness: a sell leg timed out after a successful buy leg.
C6_Witness == SellFailedAfterBuy /\ swap_log[2].err = "sell_timeout"

\* C7: a swap called with dry_run makes no RPC call, sends no transaction and
\* returns a reference that contains "simulated"; with simulation_mode on every
\* swap is a dry run.
C7_DryRunSubmitsNothing ==
    \A i \in 1..Len(swap_log) :
        /\ swap_log[i].dry_run =>
              /\ swap_log[i].rpc_calls = 0
              /\ swap_log[i].sends = 0
              /\ swap_log[i].ok
              /\ "simulated" \in Range(swap_log[i].sig)
        /\ config.simulation_mode => swap_log[i].dry_run

\* C7 witness: with simulation_mode on, both legs ran as dry runs, on serum
\* and on raydium.
C7_Witness ==
    /\ config.simulation_mode
    /\ Len(swap_log) = 2
    /\ {swap_log[1].dex, swap_log[2].dex} = {"serum", "raydium"}
    /\ swap_log[1].dry_run /\ swap_log[2].dry_run

\* the slippage percentage an execution works with
Slippage == IF config.slippage_tolerance.nan THEN DecFromInt(1) ELSE config.slippage_tolerance.v

\* the execute_swap call the step has just logged
LastSwap == swap_log'[Len(swap_log')]

\* C17: the buy leg is submitted with the trade_amount and a minimum output of
\* 0; the sell leg is submitted with the trade_amount and a minimum output of
\* trade_amount * sell_price * (1 - slippage / 100), the slippage being the
\* configured slippage_tolerance (1 when it does not parse).
C17_SellMinOutput ==
    [][/\ (pc[Loop] = "buy_pending" /\ pc'[Loop] # "buy_pending") =>
             /\ LastSwap.leg = "buy"
             /\ LastSwap.amount = exec.opp.trade_amount
             /\ LastSwap.min_output = 0
       /\ (pc[Loop] = "sell_pending" /\ pc'[Loop] # "sell_pending") =>
             /\ LastSwap.leg = "sell"
             /\ LastSwap.amount = exec.opp.trade_amount
             /\ LastSwap.min_output * 100 * DecScale
                   = ((exec.opp.trade_amount * exec.opp.sell_price) \div DecScale)
                       * (100 * DecScale - Slippage)]_vars

\* C17 witness: with a slippage_tolerance of 2, a trade of 2 sold at 105 went
\* out with a minimum output of 205.80 after a buy leg with minimum output 0.
C17_Witness ==
    /\ Len(swap_log) = 2
    /\ ~config.slippage_tolerance.nan /\ config.slippage_tolerance.v = 200
    /\ swap_log[1].leg = "buy" /\ swap_log[1].min_output = 0
    /\ swap_log[2].leg = "sell" /\ swap_log[2].amount = 200 /\ swap_log[2].min_output = 20580

TimeoutErrors == {"buy_timeout", "sell_timeout"}

\* C18: a leg that took longer than transaction_timeout_sec ended with the
\* timeout error, which is none of the adapter's swap errors; a leg that timed
\* out is the last of its execution, the execution fails and the counter is
\* one more than before; both legs run under the configured timeout.
C18_LegTimeoutBounded ==
    /\ \A i \in 1..Len(swap_log) :
          /\ swap_log[i].tx_timeout = config.transaction_timeout_sec
          /\ swap_log[i].elapsed > swap_log[i].tx_timeout * 10 => swap_log[i].err \in TimeoutErrors
          /\ swap_log[i].err \in TimeoutErrors => (~swap_log[i].ok /\ i = Len(swap_log))
    /\ (ExecReturned /\ swap_log # <<>> /\ swap_log[Len(swap_log)].err \in TimeoutErrors) =>
          /\ ~last_return.ok
          /\ consecutive_failures = failures_before + 1
    /\ TimeoutErrors \cap {"buy_error", "sell_error"} = {}

\* C19: no execution takes the atomic path; an execution in flight is on the
\* two-step path, and a successful one made two execute_swap calls, the buy
\* and then the sell.
C19_TwoStepOnly ==
    /\ exec.path # "atomic"
    /\ ExecInFlight => exec.path = "two_step"
    /\ (ExecReturned /\ last_return.ok) =>
          /\ Len(swap_log) = 2
          /\ swap_log[1].leg = "buy" /\ swap_log[2].leg = "sell"

\* C19 witness: a successful execution made two execute_swap calls, the buy
\* on one venue and the sell on the other.
C19_Witness ==
    /\ ExecReturned /\ last_return.ok
    /\ Len(swap_log) = 2
    /\ swap_log[1].leg = "buy" /\ swap_log[2].leg = "sell"
    /\ swap_log[1].dex # swap_log[2].dex

\* C20: an execute_arbitrage called with an opportunity whose from_dex or
\* to_dex is not a registered adapter returns an error at once: no
\* execute_swap is invoked, no trade is recorded and consecutive_failures
\* stays as it was.
C20_UnknownVenueRejected ==
    [][(/\ pc[Loop] = "next_opp" /\ pc'[Loop] # "next_opp"
        /\ opportunities # <<>>
        /\ \/ Head(opportunities).from_dex \notin Range(Dexes)
           \/ Head(opportunities).to_dex \notin Range(Dexes))
       => /\ pc'[Loop] = "exec_returned"
          /\ ~last_return'.ok
          /\ swap_log' = <<>>
          /\ monitor_log' = <<>>
          /\ consecutive_failures' = consecutive_failures]_vars

\* C20 witness: after a failed execution, a call naming a venue that is not
\* registered returned its error and left the counter at 1.
C20_Witness ==
    /\ ExecReturned
    /\ last_return.err = "dex_not_found"
    /\ swap_log = <<>> /\ monitor_log = <<>>
    /\ failures_before = 1 /\ consecutive_failures = 1

\* C21: an execute_arbitrage called with an opportunity whose trade_amount is
\* not above 0, on registered venues, returns the insufficient-liquidity error
\* at once: no execute_swap is invoked and consecutive_failures stays as it was.
C21_NonPositiveSizeRejected ==
    [][(/\ pc[Loop] = "next_opp" /\ pc'[Loop] # "next_opp"
        /\ opportunities # <<>>
        /\ Head(opportunities).from_dex \in Range(Dexes)
        /\ Head(opportunities).to_dex \in Range(Dexes)
        /\ Head(opportunities).trade_amount <= 0)
       => /\ pc'[Loop] = "exec_returned"
          /\ last_return' = [ok |-> FALSE, err |-> "insufficient_liquidity"]
          /\ swap_log' = <<>>
          /\ consecutive_failures' = consecutive_failures]_vars

\* C23: when execute_arbitrage returns, the monitor has been called exactly
\* once if it returns success, with the opportunity's from_dex, to_dex and
\* profit_percent_after_fees and the simulation flag, and not at all if it
\* returns an error; outside a returned execution nothing is logged.
C23_LoggedOncePerSuccess ==
    [][/\ (pc[Loop] # "exec_returned" /\ pc'[Loop] = "exec_returned") =>
             IF last_return'.ok
             THEN monitor_log' = << [from_dex |-> exec.opp.from_dex,
                                     to_dex |-> exec.opp.to_dex,
                                     profit_percent |-> exec.opp.profit_percent_after_fees,
                                     simulation_mode |-> config.simulation_mode] >>
             ELSE monitor_log' = <<>>
       /\ pc'[Loop] = "exec_returned" => (last_return'.ok <=> Len(monitor_log') = 1)
       /\ pc'[Loop] # "exec_returned" => monitor_log' = <<>>]_vars

\* C23 witness: a production-mode execution returned success and the monitor
\* holds its one entry, with a profit below the opportunity's gross 5 percent.
C23_Witness ==
    /\ ExecReturned /\ last_return.ok
    /\ Len(swap_log) = 2 /\ ~swap_log[2].dry_run
    /\ Len(monitor_log) = 1
    /\ monitor_log[1].from_dex = swap_log[1].dex /\ monitor_log[1].to_dex = swap_log[2].dex
    /\ monitor_log[1].profit_percent < 500
    /\ ~monitor_log[1].simulation_mode

\* C24: a task that waits in a scan for an adapter's answer to get_price,
\* holding the engine guard, has a deadline armed that ends the wait.
C24_GetPriceBounded ==
    \A t \in Tasks : (pc[t] = "scan_blocked" /\ engine_lock = t) => GetPriceDeadlineArmed

\* C25: one execute_arbitrage makes at most one execute_swap call for the buy
\* and at most one for the sell, and a call that failed or timed out is the
\* last one of the execution.
C25_EachLegOnce ==
    /\ Cardinality({i \in 1..Len(swap_log) : swap_log[i].leg = "buy"}) <= 1
    /\ Cardinality({i \in 1..Len(swap_log) : swap_log[i].leg = "sell"}) <= 1
    /\ Len(swap_log) <= 2
    /\ \A i \in 1..Len(swap_log) : ~swap_log[i].ok => i = Len(swap_log)
    /\ (ExecReturned /\ ~last_return.ok /\ swap_log # <<>>) => ~swap_log[Len(swap_log)].ok

\* C25 witness: an execution returned after its sell leg timed out; the log
\* holds the one buy call and the one sell call.
C25_Witness ==
    /\ ExecReturned /\ ~last_return.ok
    /\ Len(swap_log) = 2
    /\ swap_log[1].leg = "buy" /\ swap_log[1].ok
    /\ swap_log[2].leg = "sell" /\ swap_log[2].err = "sell_timeout"

\* the swaps that reached send_transaction_with_retry
Submitted == {i \in 1..Len(swap_log) : swap_log[i].sends >= 1}

\* C26: send_transaction_with_retry with 3 attempts sends at most 3 times;
\* it returns success at the first send the node accepts, without a delay
\* after it; it returns its error only after 3 sends none of which was
\* accepted; it waits after each failed send but the third, each delay longer
\* than the one before.
C26_RetryBackoff ==
    /\ \A k \in 0..MaxRetries :
          LET r == SendTransactionWithRetry(0, MaxRetries, k, 0)
          IN  /\ r.sends = (IF k = 0 THEN MaxRetries ELSE k)
              /\ (r.end = "ok") <=> (k # 0)
              /\ (r.end = "error") <=> (k = 0)
              /\ Len(r.delays) = r.sends - 1
    /\ \A i \in Submitted :
          LET c == swap_log[i]
          IN  /\ c.sends <= 3
              /\ Len(c.delays) <= 2
              /\ c.ok => (c.sends = c.send_ok_at /\ Len(c.delays) = c.sends - 1)
              /\ c.err \in {"buy_error", "sell_error"} =>
                     (c.sends = 3 /\ c.send_ok_at = 0 /\ Len(c.delays) = 2)
              /\ c.err \in TimeoutErrors => (c.sends <= 2 /\ Len(c.delays) = c.sends)
              /\ \A k \in 1..Len(c.delays) :
                     /\ c.delays[k] > 0
                     /\ k > 1 => c.delays[k] > c.delays[k - 1]

\* C26 witness: a swap was accepted on its third send, after two delays; and
\* before it a swap of the same execution was accepted on its first.
C26_Witness ==
    /\ Len(swap_log) = 2
    /\ swap_log[1].ok /\ swap_log[1].sends = 1 /\ swap_log[1].delays = <<>>
    /\ swap_log[2].ok /\ swap_log[2].sends = 3 /\ Len(swap_log[2].delays) = 2

\* C28: consecutive_failures changes only when an execute_arbitrage in flight
\* returns; a find_opportunities that returns, to the polling loop or to a
\* request handler, leaves it as it was.
C28_ScanKeepsCounter ==
    [][/\ consecutive_failures' # consecutive_failures =>
             (ExecInFlight /\ pc'[Loop] = "exec_returned")
       /\ (\E t \in Tasks : pc[t] = "scanning" /\ pc'[t] # "scanning") =>
             consecutive_failures' = consecutive_failures]_vars

\* C28 witness: a request's scan has failed and the polling loop's scan has
\* returned an opportunity while the counter stands at 1.
C28_Witness ==
    /\ consecutive_failures = 1
    /\ http_status = 500
    /\ pc[Loop] = "next_opp" /\ opportunities # <<>>

\* C33: while the bot status is Stopped the polling loop starts no
\* execute_arbitrage.
C33_StoppedNoExecution ==
    [][bot_status = "stopped" =>
         ~(pc[Loop] = "next_opp" /\ pc'[Loop] \in {"buy_pending", "exec_returned"})]_vars

\* C38: a credential pair the WebSocket token check accepts is accepted by
\* the HTTP Basic middleware too, and with WEB_PASSWORD not set neither check
\* accepts any credential.
C38_WsTokenImpliesBasic ==
    auth.checked =>
        /\ auth.ws => auth.http = 200
        /\ web_env.password = Unset => (~auth.ws /\ auth.http # 200)

\* C37: under a configuration that Config::validate accepts, the minimum
\* output the sell leg is given lies between 0 and trade_amount * sell_price.
C37_MinOutputInRange ==
    (Validate(config) /\ pc[Loop] = "sell_pending") =>
        /\ 0 <= exec.min_output
        /\ exec.min_output <= DecMul(exec.opp.trade_amount, exec.opp.sell_price)

\* C34: consecutive_failures is the number of execute_arbitrage calls that
\* ended in a failed or timed-out leg since the last successful call, or since
\* the engine was built; a call that failed at the venue lookup is not among
\* them.
C34_CounterCountsLegFailures ==
    /\ consecutive_failures = fail_run
    /\ (ExecReturned /\ last_return.err = "dex_not_found") =>
          (swap_log = <<>> /\ consecutive_failures = failures_before)
    /\ (ExecReturned /\ ~last_return.ok /\ swap_log # <<>>) =>
          consecutive_failures = failures_before + 1

\* C34 witness: the second of two executions in a row failed in its sell leg
\* by timeout and the counter stands at 2.
C34_Witness ==
    /\ ExecReturned /\ ~last_return.ok
    /\ Len(swap_log) = 2 /\ swap_log[2].err = "sell_timeout"
    /\ failures_before = 1 /\ consecutive_failures = 2 /\ fail_run = 2

\* C35: an execution whose leg failed when the counter had already reached
\* the ceiling returns the failure-limit error; so does the first failure
\* under a ceiling of 0 or 1; after a success has reset the counter, a failure
\* that leaves it below the ceiling returns the error of its leg.
C35_FatalPersists ==
    (ExecReturned /\ ~last_return.ok /\ swap_log # <<>>) =>
        /\ failures_before >= Ceiling => last_return.err = "limit_reached"
        /\ Ceiling <= 1 => last_return.err = "limit_reached"
        /\ failures_before + 1 < Ceiling => last_return.err \in TransientErrors

\* C35 witness: with a ceiling of 1 or more, an execution that started with
\* the counter above the ceiling failed and returned the failure-limit error.
C35_Witness ==
    /\ ExecReturned /\ last_return.err = "limit_reached"
    /\ Ceiling >= 1 /\ failures_before > Ceiling
    /\ swap_log # <<>> /\ ~swap_log[Len(swap_log)].ok

\* C32: the polling loop starts an execution only with the first of the
\* opportunities still to execute and drops exactly that one from them; the
\* list changes in no other way until the next scan returns; whatever an
\* execution returned, the loop goes on with the opportunities that are left,
\* and it scans again only when none is left.
C32_EachOpportunityOnce ==
    [][/\ (pc[Loop] = "next_opp" /\ pc'[Loop] \in {"buy_pending", "exec_returned"}) =>
             /\ opportunities # <<>>
             /\ opportunities' = Tail(opportunities)
             /\ pc'[Loop] = "buy_pending" => exec'.opp = Head(opportunities)
       /\ (pc[Loop] = "exec_returned" /\ pc'[Loop] # "exec_returned") =>
             (pc'[Loop] = "next_opp" /\ opportunities' = opportunities)
       /\ (pc[Loop] = "next_opp" /\ pc'[Loop] = "scan_wait") => opportunities = <<>>
       /\ opportunities' # opportunities =>
             \/ pc[Loop] = "next_opp" /\ pc'[Loop] \in {"buy_pending", "exec_returned"}
             \/ pc[Loop] = "scanning" /\ pc'[Loop] = "next_opp"]_vars

\* C32 witness: of a list of two opportunities, the execution of the first
\* failed in a leg with the error of that leg, and the execution of the
\* second, which trades another amount, is in flight.
C32_Witness ==
    /\ pc[Loop] = "buy_pending"
    /\ exec.opp.trade_amount = 200
    /\ opportunities = <<>>
    /\ last_return.err \in TransientErrors
    /\ failures_before = 1 /\ fail_run = 1

\* task t holds the engine guard for a scan or an execution of its own
Proceeds(t) ==
    /\ engine_lock = t
    /\ InScan(t) \/ pc[t] \in {"buy_pending", "sell_pending"}

====
